---- MODULE Spec2Model ----
(***************************************************************************)
(* Chat client (client.py, private_chat.py): the receiver thread that      *)
(* pumps frames from the SUB socket into the GUI thread, and the           *)
(* ChatClient slots that reconcile groups, joined_groups, the group tabs   *)
(* and the private chat windows with the envelopes the provider sends.     *)
(***************************************************************************)
EXTENDS Integers, Sequences, FiniteSets, TLC

(***************************************************************************)
(* Bounds of the model.                                                    *)
(***************************************************************************)
MaxFrames == 3
MaxSend == 1

(***************************************************************************)
(* Python str operations used by the handler, computed on TLA+ strings.    *)
(***************************************************************************)
\* `kw in data`: substring test
Contains(data, kw) ==
    \E i \in 1..(Len(data) - Len(kw) + 1) : SubSeq(data, i, i + Len(kw) - 1) = kw

\* the position of the first blank at or after i, Len(s)+1 when there is none
RECURSIVE NextBlank(_, _)
NextBlank(s, i) ==
    IF i > Len(s) THEN Len(s) + 1
    ELSE IF SubSeq(s, i, i) = " " THEN i
    ELSE NextBlank(s, i + 1)

\* data.split(): the maximal runs of non-blank characters, in order
RECURSIVE SplitFrom(_, _)
SplitFrom(s, i) ==
    IF i > Len(s) THEN <<>>
    ELSE IF SubSeq(s, i, i) = " " THEN SplitFrom(s, i + 1)
    ELSE LET j == NextBlank(s, i)
         IN  <<SubSeq(s, i, j - 1)>> \o SplitFrom(s, j + 1)

Split(s) == SplitFrom(s, 1)

\* word.rstrip("."): every trailing dot removed
RECURSIVE RStripDot(_)
RStripDot(w) ==
    IF Len(w) > 0 /\ SubSeq(w, Len(w), Len(w)) = "."
    THEN RStripDot(SubSeq(w, 1, Len(w) - 1))
    ELSE w

\* text.strip() for the blanks the model's texts contain
RECURSIVE Strip(_)
Strip(s) ==
    IF Len(s) > 0 /\ SubSeq(s, 1, 1) = " " THEN Strip(SubSeq(s, 2, Len(s)))
    ELSE IF Len(s) > 0 /\ SubSeq(s, Len(s), Len(s)) = " "
         THEN Strip(SubSeq(s, 1, Len(s) - 1))
    ELSE s

\* Python's order on str, for the characters the model's names contain
\* (code points: blank < "." < upper case < lower case)
CharOrder == " .GNadeginjoprstuv"

Ord(c) == CHOOSE i \in 1..Len(CharOrder) : SubSeq(CharOrder, i, i) = c

RECURSIVE StrLess(_, _)
StrLess(a, b) ==
    IF Len(b) = 0 THEN FALSE
    ELSE IF Len(a) = 0 THEN TRUE
    ELSE LET ca == Ord(SubSeq(a, 1, 1))
             cb == Ord(SubSeq(b, 1, 1))
         IN  IF ca # cb THEN ca < cb
             ELSE StrLess(SubSeq(a, 2, Len(a)), SubSeq(b, 2, Len(b)))

\* sorted(names): a set of distinct strings in ascending order
RECURSIVE Sorted(_)
Sorted(names) ==
    IF names = {} THEN <<>>
    ELSE LET m == CHOOSE x \in names : \A y \in names \ {x} : StrLess(x, y)
         IN  <<m>> \o Sorted(names \ {m})

(***************************************************************************)
(* Identities, names and the envelopes of the wire.                        *)
(***************************************************************************)
Username == "alice"

Placeholder == "No Groups"

\* a JSON array of strings, a JSON number, a JSON object
List(s) == [kind |-> "list", items |-> s]

Number == [kind |-> "int", items |-> <<>>]

Dict(f) == [kind |-> "dict", items |-> f]

NoGroups == [g \in {} |-> List(<<>>)]

Snapshot(f) == [type |-> "event", groups |-> Dict(f)]

SnapshotTo(u, f) == [type |-> "event", to |-> u, groups |-> Dict(f)]

TextEvent(text) == [type |-> "event", data |-> text]

TextEventTo(u, text) == [type |-> "event", to |-> u, data |-> text]

PrivateMsg(from, to, text) == [type |-> "message", from |-> from, to |-> to, data |-> text]

GroupMsg(from, group, text) == [type |-> "message", from |-> from, group |-> group, data |-> text]

Command(action, group) ==
    [type |-> "command", from |-> Username, action |-> action, group |-> group]

\* a frame as it arrives on the SUB socket: text that is no JSON, JSON that
\* is no object, or the JSON text of an object
Garbage == [json |-> "invalid"]

JsonArray == [json |-> "array"]

Json(obj) == [json |-> "object", value |-> obj]

(***************************************************************************)
(* State.                                                                  *)
(***************************************************************************)
VARIABLES
    feed,             \* the frames the provider may publish in this run
    unhandled,        \* what the build does with an exception that leaves a
                      \* slot: "abort" (qFatal) or "print" (drop it, go on)
    alive,            \* the process has not been aborted
    groups,           \* ChatClient.groups: group name -> set of members
    joined_groups,    \* ChatClient.joined_groups
    private_windows,  \* ChatClient.private_windows: peer -> window
    windows,          \* every PrivateChatWindow constructed so far
    group_tabs,       \* ChatClient.group_tabs: the tabs, left to right
    currentIndex,     \* group_tabs.currentIndex(), -1 when there is no tab
    pub,              \* the envelopes sent on the PUB socket, in order
    pubClosed,        \* ChatClient.pub is closed
    modal,            \* the message boxes that are open, each in its own
                      \* event loop inside the slot that opened it
    userSends,        \* the lines and commands the user has issued so far
    subClosed,        \* ZMQReceiverThread.sub is closed
    pumpPc,           \* where ZMQReceiverThread.run is: "recv" or "except"
    caught,           \* the exception its handler caught last
    received,         \* what each frame recv_string returned was: "invalid",
                      \* "array" or "object", in receive order
    queue,            \* message_received emissions not yet delivered, each
                      \* with the receive number of its frame
    applied,          \* the emissions handle_incoming_message has run on
    lastErr,          \* the last slot of the GUI thread raised an exception
    arrivals          \* peer -> the private lines exchanged with it, in order

gui == <<groups, joined_groups, private_windows, windows, group_tabs,
         currentIndex, pub>>

vars == <<feed, unhandled, alive, groups, joined_groups, private_windows,
          windows, group_tabs, currentIndex, pub, pubClosed, modal, userSends,
          subClosed, pumpPc, caught, received, queue, applied, lastErr,
          arrivals>>

(***************************************************************************)
(* The GUI thread's objects as one value, threaded through the statements  *)
(* of a slot.  err: an exception was raised; halt: control has left the    *)
(* slot (the exception propagated out of it, or the process was aborted).  *)
(***************************************************************************)
Gui ==
    [groups |-> groups, joined_groups |-> joined_groups,
     private_windows |-> private_windows, windows |-> windows,
     group_tabs |-> group_tabs, currentIndex |-> currentIndex, pub |-> pub,
     err |-> FALSE, halt |-> FALSE, box |-> 0]

\* an exception raised by a statement of the running slot itself
Raise(S) == [S EXCEPT !.err = TRUE, !.halt = TRUE]

\* an exception that leaves a slot Qt called from inside a widget call of the
\* running slot: the build aborts the process, or prints it and the widget
\* call returns
SlotRaise(S) == [S EXCEPT !.err = TRUE, !.halt = (unhandled = "abort")]

\* QMessageBox.information / QMessageBox.warning: a modal box, open until the
\* user dismisses it
MessageBox(S) == IF S.halt THEN S ELSE [S EXCEPT !.box = @ + 1]

\* self.pub.send_string(json.dumps(msg)); a closed socket raises ZMQError
SendString(S, msg) ==
    IF S.halt THEN S
    ELSE IF pubClosed THEN Raise(S)
    ELSE [S EXCEPT !.pub = Append(@, msg)]

send_command(S, action, group) == SendString(S, Command(action, group))

refresh_groups(S) == send_command(S, "refresh", "")

\* update_member_list: member_list is a Python list, so clear() works and the
\* first addItem raises AttributeError
UpdateMemberListRaises(S, group_name) ==
    /\ group_name \in DOMAIN S.groups
    /\ S.groups[group_name] # {}

update_member_list(S, group_name) ==
    IF S.halt THEN S
    ELSE IF UpdateMemberListRaises(S, group_name) THEN Raise(S)
    ELSE S

tabText(S, index) == S.group_tabs[index + 1].text

\* on_group_tab_changed(index); True when it raises
OnGroupTabChangedRaises(S, index) ==
    /\ index >= 0
    /\ LET group_name == tabText(S, index)
       IN  IF group_name # Placeholder
           THEN TRUE    \* member_list.addItem("Join group to see members")
           ELSE UpdateMemberListRaises(S, group_name)

\* the signal group_tabs.currentChanged(index), connected to
\* on_group_tab_changed
currentChanged(S, index) ==
    IF S.halt THEN S
    ELSE IF OnGroupTabChangedRaises(S, index) THEN SlotRaise(S)
    ELSE S

\* QTabWidget.removeTab(0): the tab to the right becomes current
removeTab0(S) ==
    LET rest == Tail(S.group_tabs)
        cur  == IF S.currentIndex = 0
                THEN (IF Len(rest) > 0 THEN 0 ELSE -1)
                ELSE S.currentIndex - 1
    IN  currentChanged([S EXCEPT !.group_tabs = rest, !.currentIndex = cur], cur)

\* QTabWidget.clear(): removeTab(0) while there is a tab
RECURSIVE clearTabs(_)
clearTabs(S) ==
    IF S.halt \/ Len(S.group_tabs) = 0 THEN S
    ELSE clearTabs(removeTab0(S))

\* QTabWidget.addTab(QTextEdit(), name): the first tab becomes current
addTab(S, name) ==
    IF S.halt THEN S
    ELSE LET T == [S EXCEPT !.group_tabs = Append(@, [text |-> name, display |-> <<>>])]
         IN  IF Len(S.group_tabs) = 0
             THEN currentChanged([T EXCEPT !.currentIndex = 0], 0)
             ELSE T

RECURSIVE addTabs(_, _)
addTabs(S, names) ==
    IF names = <<>> THEN S
    ELSE addTabs(addTab(S, Head(names)), Tail(names))

\* QTabWidget.setCurrentIndex(index): signals only a change
setCurrentIndex(S, index) ==
    IF S.halt \/ index < 0 \/ index >= Len(S.group_tabs) \/ index = S.currentIndex
    THEN S
    ELSE currentChanged([S EXCEPT !.currentIndex = index], index)

\* update_group_list(group_names)
update_group_list(S, group_names) ==
    LET current_index == S.currentIndex
        S1 == clearTabs(S)
        S2 == IF group_names # {}
              THEN addTabs(S1, Sorted(group_names))
              ELSE addTab(S1, Placeholder)
        S3 == IF current_index >= 0 /\ current_index < Len(S2.group_tabs)
              THEN setCurrentIndex(S2, current_index)
              ELSE S2
    IN  IF S3.halt \/ Len(S3.group_tabs) = 0 \/ S3.currentIndex < 0 THEN S3
        ELSE LET current == tabText(S3, S3.currentIndex)
             IN  IF current # Placeholder
                 THEN update_member_list(S3, current)
                 ELSE S3

(***************************************************************************)
(* handle_incoming_message                                                 *)
(***************************************************************************)
\* set(members) for every value of the groups object; a value that is no
\* array raises TypeError
SetsRaise(groups_data) ==
    \E g \in DOMAIN groups_data.items : groups_data.items[g].kind # "list"

Range(s) == {s[i] : i \in 1..Len(s)}

SetsOf(groups_data) ==
    [g \in DOMAIN groups_data.items |-> Range(groups_data.items[g].items)]

\* ApplySnapshot with the new mapping merged into the old one
ApplySnapshotMerging(S, msg) ==
    LET groups_data == msg.groups
    IN  IF groups_data.kind # "dict" THEN S
        ELSE IF SetsRaise(groups_data) THEN Raise(S)
        ELSE LET new == SetsOf(groups_data)
                 S1 == [S EXCEPT !.groups =
                            [g \in DOMAIN new \cup DOMAIN S.groups |->
                                IF g \in DOMAIN new THEN new[g] ELSE S.groups[g]]]
             IN  update_group_list(S1, DOMAIN S1.groups)

\* the branch `if "groups" in msg`
ApplySnapshot(S, msg) ==
    LET groups_data == msg.groups
    IN  IF groups_data.kind # "dict" THEN S
        ELSE IF SetsRaise(groups_data) THEN Raise(S)
        ELSE LET S1 == [S EXCEPT !.groups = SetsOf(groups_data)]
             IN  update_group_list(S1, DOMAIN S1.groups)

\* ApplyJoinLeft with a join of a member taken as that member leaving
ApplyJoinLeftToggling(S, data) ==
    LET parts == Split(data)
    IN  IF Len(parts) < 3 THEN S
        ELSE LET user  == parts[1]
                 group == RStripDot(parts[3])
             IN  IF group \notin DOMAIN S.groups THEN S
                 ELSE IF Contains(data, "joined") /\ user \notin S.groups[group]
                 THEN [S EXCEPT
                         !.groups[group] = @ \cup {user},
                         !.joined_groups =
                             IF user = Username THEN @ \cup {group} ELSE @]
                 ELSE [S EXCEPT
                         !.groups[group] = @ \ {user},
                         !.joined_groups =
                             IF user = Username THEN @ \ {group} ELSE @]

\* ApplyJoinLeft that records the join of the local user in joined_groups
\* only, not in the member set of the group
ApplyJoinLeftJoinedOnly(S, data) ==
    LET parts == Split(data)
    IN  IF Len(parts) < 3 THEN S
        ELSE LET user  == parts[1]
                 group == RStripDot(parts[3])
             IN  IF group \notin DOMAIN S.groups THEN S
                 ELSE LET S1 ==
                            IF Contains(data, "joined")
                            THEN IF user = Username
                                 THEN [S EXCEPT !.joined_groups = @ \cup {group}]
                                 ELSE [S EXCEPT !.groups[group] = @ \cup {user}]
                            ELSE IF Contains(data, "left")
                            THEN [S EXCEPT
                                    !.groups[group] = @ \ {user},
                                    !.joined_groups =
                                        IF user = Username THEN @ \ {group} ELSE @]
                            ELSE S
                      IN  IF S1.currentIndex >= 0
                             /\ tabText(S1, S1.currentIndex) = group
                          THEN update_member_list(S1, group)
                          ELSE S1

\* the branch `elif "joined" in data or "left" in data`
ApplyJoinLeft(S, data) ==
    LET parts == Split(data)
    IN  IF Len(parts) < 3 THEN S
        ELSE LET user  == parts[1]
                 group == RStripDot(parts[3])
             IN  IF group \notin DOMAIN S.groups THEN S
                 ELSE LET S1 ==
                            IF Contains(data, "joined")
                            THEN [S EXCEPT
                                    !.groups[group] = @ \cup {user},
                                    !.joined_groups =
                                        IF user = Username THEN @ \cup {group} ELSE @]
                            ELSE IF Contains(data, "left")
                            THEN [S EXCEPT
                                    !.groups[group] = @ \ {user},
                                    !.joined_groups =
                                        IF user = Username THEN @ \ {group} ELSE @]
                            ELSE S
                      IN  IF S1.currentIndex >= 0
                             /\ tabText(S1, S1.currentIndex) = group
                          THEN update_member_list(S1, group)
                          ELSE S1

\* the text events: `data = msg.get("data", "")` and what follows
ApplyTextEvent(S, msg) ==
    LET data == IF "data" \in DOMAIN msg THEN msg.data ELSE ""
    IN  IF data = "" THEN S
        ELSE IF Contains(data, "created") \/ Contains(data, "removed")
        THEN MessageBox(refresh_groups(S))
        ELSE IF Contains(data, "joined") \/ Contains(data, "left")
        THEN MessageBox(ApplyJoinLeft(S, data))
        ELSE S

\* PrivateChatWindow.display_message on window w
display_message(S, w, text) ==
    IF S.halt THEN S
    ELSE [S EXCEPT !.windows[w].chat_display = Append(@, text)]

\* PrivateChatWindow.receive_message
receive_message(S, w, sender, message) ==
    display_message(S, w, sender \o ": " \o message)

\* PrivateChatWindow(self.username, target); self.private_windows[target] = win
OpenWindow(S, target) ==
    [S EXCEPT
        !.windows = Append(@, [local_user |-> Username, target_user |-> target,
                               chat_display |-> <<>>]),
        !.private_windows =
            [p \in DOMAIN @ \cup {target} |->
                IF p = target THEN Len(S.windows) + 1 ELSE @[p]]]

\* ApplyPrivateMessage without the lookup: a window for every message
ApplyPrivateMessageNoLookup(S, msg) ==
    IF "from" \notin DOMAIN msg \/ "data" \notin DOMAIN msg THEN Raise(S)
    ELSE LET S1 == OpenWindow(S, msg.from)
         IN  receive_message(S1, S1.private_windows[msg.from], msg.from, msg.data)

\* the branch `if "to" in msg` of a message
ApplyPrivateMessage(S, msg) ==
    IF "from" \notin DOMAIN msg \/ "data" \notin DOMAIN msg THEN Raise(S)  \* KeyError
    ELSE LET sender  == msg.from
             content == msg.data
             S1 == IF sender \notin DOMAIN S.private_windows
                   THEN OpenWindow(S, sender)
                   ELSE S
         IN  receive_message(S1, S1.private_windows[sender], sender, content)

\* get_all_group_names and find_tab_by_name: their body is `pass`
get_all_group_names == [kind |-> "None"]

find_tab_by_name(name) == [kind |-> "None"]

\* the group message branch: `group in self.get_all_group_names()` is a
\* membership test on None, a TypeError
ApplyGroupMessage(S, msg) ==
    LET group == IF "group" \in DOMAIN msg THEN msg.group ELSE ""
        names == get_all_group_names
        tab   == find_tab_by_name(group)
    IN  IF names.kind = "None" THEN Raise(S)
        ELSE IF group \in names.items /\ tab.kind # "None"
        THEN [S EXCEPT !.group_tabs[tab.index].display =
                            Append(@, msg.from \o ": " \o msg.data)]
        ELSE S

\* handle_incoming_message without the test of `to`
HandleIncomingUnfiltered(S, msg) ==
    IF msg.type = "event"
    THEN IF "groups" \in DOMAIN msg THEN ApplySnapshot(S, msg)
         ELSE ApplyTextEvent(S, msg)
    ELSE IF msg.type = "message"
    THEN IF "to" \in DOMAIN msg THEN ApplyPrivateMessage(S, msg)
         ELSE ApplyGroupMessage(S, msg)
    ELSE S

handle_incoming_message(S, msg) ==
    IF msg.type = "event"
    THEN IF "to" \in DOMAIN msg /\ msg.to # Username THEN S
         ELSE IF "groups" \in DOMAIN msg THEN ApplySnapshot(S, msg)
         ELSE ApplyTextEvent(S, msg)
    ELSE IF msg.type = "message"
    THEN IF "to" \in DOMAIN msg THEN ApplyPrivateMessage(S, msg)
         ELSE ApplyGroupMessage(S, msg)
    ELSE S

(***************************************************************************)
(* The frames of a run.                                                    *)
(***************************************************************************)
Peers == {"bob"}

\* what the user may type into a private chat window's input box
Texts == {"ok", " "}

MembershipFrames ==
    { Json(Snapshot(NoGroups)),
      Json(Snapshot([dev |-> List(<<>>)])),
      Json(SnapshotTo("alice", [dev |-> List(<<"bob">>)])),
      Json(Snapshot([ops |-> List(<<"bob">>), dev |-> List(<<>>)])),
      Json(TextEvent("alice joined dev.")),
      Json(TextEvent("alice joined group dev.")),
      Json(TextEvent("alice left dev.")),
      Json(TextEvent("bob joined dev.")) }

ChatFrames ==
    { Json(PrivateMsg("bob", "alice", "hi")),
      Json(PrivateMsg("bob", "alice", "yo")),
      Json([type |-> "message", to |-> "alice", data |-> "hi"]),
      Json(GroupMsg("bob", "dev", "hi")),
      Json(Snapshot([ops |-> List(<<>>), dev |-> List(<<>>)])),
      Json(Snapshot([dev |-> Number])),
      Json(TextEvent("hello")),
      Garbage,
      JsonArray }

CommandFrames ==
    { Json(Snapshot([ops |-> List(<<>>), dev |-> List(<<>>)])),
      Json(TextEvent("alice joined dev.")),
      Json(TextEvent("alice joined ops.")) }

LifecycleFrames ==
    { Json(Snapshot([ops |-> List(<<>>), dev |-> List(<<>>)])),
      Json(TextEvent("alice joined dev.")),
      Json(TextEvent("Group dev created.")),
      Json(TextEvent("Group dev removed.")),
      Json(PrivateMsg("bob", Username, "hi")) }

RoutingFrames ==
    { Json(Snapshot([joined |-> List(<<"bob">>), dev |-> List(<<>>)])),
      Json(SnapshotTo("bob", [ops |-> List(<<>>)])),
      Json(TextEvent("alice joined dev.")),
      Json(TextEventTo("bob", "alice left dev.")),
      Json(TextEventTo("bob", "Group dev created.")),
      Json(TextEvent("bob left joined.")),
      Json(TextEvent("bob joined created.")),
      Json(PrivateMsg("bob", Username, "hi")) }

\* frames a provider that broadcasts everything to everybody may publish: a
\* group named like the placeholder, messages between other users and the
\* user's own message
StrayFrames ==
    { Json(Snapshot([g \in {Placeholder, "joined"} |-> List(<<>>)])),
      Json(TextEvent("alice joined No Groups.")),
      Json(TextEvent("alice left joined.")),
      Json(PrivateMsg("bob", "carol", "hi")),
      Json(PrivateMsg(Username, "bob", "hi")) }

Frames(f) ==
    IF f = "membership" THEN MembershipFrames
    ELSE IF f = "chat" THEN ChatFrames
    ELSE IF f = "routing" THEN RoutingFrames
    ELSE IF f = "lifecycle" THEN LifecycleFrames
    ELSE IF f = "stray" THEN StrayFrames
    ELSE CommandFrames

\* what the user may type into the group name dialogs
GroupInputs == {"dev", " qa ", " "}

(***************************************************************************)
(* ZMQReceiverThread                                                       *)
(***************************************************************************)
\* json.loads(raw) raises JSONDecodeError
JsonLoadsRaises(raw) == raw.json = "invalid"

\* message_received is pyqtSignal(dict): emit raises TypeError on any other value
EmitRaises(raw) == raw.json # "object"

\* PumpReceive with message_received connected directly: the slot runs in
\* the receiver thread, inside emit
PumpReceiveDirect(raw) ==
    /\ alive /\ ~subClosed /\ pumpPc = "recv"
    /\ Len(received) < MaxFrames
    /\ raw \in Frames(feed)
    /\ received' = Append(received, raw.json)
    /\ IF JsonLoadsRaises(raw) \/ EmitRaises(raw)
       THEN /\ pumpPc' = "except"
            /\ caught' = IF JsonLoadsRaises(raw) THEN "JSONDecodeError" ELSE "TypeError"
            /\ UNCHANGED <<alive, gui, applied, lastErr>>
       ELSE /\ LET S == handle_incoming_message(Gui, raw.value)
               IN  /\ groups' = S.groups
                   /\ joined_groups' = S.joined_groups
                   /\ private_windows' = S.private_windows
                   /\ windows' = S.windows
                   /\ group_tabs' = S.group_tabs
                   /\ currentIndex' = S.currentIndex
                   /\ pub' = S.pub
                   /\ lastErr' = S.err
                   /\ alive' = alive
            /\ applied' = Append(applied, [n |-> Len(received) + 1, msg |-> raw.value])
            /\ pumpPc' = "recv"
            /\ caught' = caught
    /\ UNCHANGED <<feed, unhandled, modal, pubClosed, userSends, subClosed, queue,
                   arrivals>>

\* one pass of the loop of run() in which recv_string returns a frame
PumpReceive(raw) ==
    /\ alive /\ ~subClosed /\ pumpPc = "recv"
    /\ Len(received) < MaxFrames
    /\ raw \in Frames(feed)
    /\ received' = Append(received, raw.json)
    /\ IF JsonLoadsRaises(raw) \/ EmitRaises(raw)
       THEN /\ pumpPc' = "except"
            /\ caught' = IF JsonLoadsRaises(raw) THEN "JSONDecodeError" ELSE "TypeError"
            /\ queue' = queue
       ELSE /\ queue' = Append(queue, [n |-> Len(received) + 1, msg |-> raw.value])
            /\ pumpPc' = "recv"
            /\ caught' = caught
    /\ UNCHANGED <<feed, unhandled, modal, alive, gui, pubClosed, userSends, subClosed,
                   applied, lastErr, arrivals>>

\* PumpExcept with a break in the handler
PumpExceptBreaking ==
    /\ alive /\ pumpPc = "except"
    /\ pumpPc' = "exited"
    /\ UNCHANGED <<feed, unhandled, modal, alive, gui, pubClosed, userSends, subClosed,
                   caught, received, queue, applied, lastErr, arrivals>>

\* except Exception as e: print(str(e)); pass -- and the loop goes on
PumpExcept ==
    /\ alive /\ pumpPc = "except"
    /\ pumpPc' = "recv"
    /\ UNCHANGED <<feed, unhandled, modal, alive, gui, pubClosed, userSends, subClosed,
                   caught, received, queue, applied, lastErr, arrivals>>

\* recv_string on the socket that stop() closed from the GUI thread: it
\* raises ZMQError, or libzmq, whose sockets are not thread safe, aborts
PumpReceiveClosed ==
    /\ alive /\ subClosed /\ pumpPc = "recv"
    /\ \/ pumpPc' = "except" /\ caught' = "ZMQError" /\ alive' = alive
       \/ pumpPc' = pumpPc /\ caught' = caught /\ alive' = FALSE
    /\ UNCHANGED <<feed, unhandled, modal, gui, pubClosed, userSends, subClosed,
                   received, queue, applied, lastErr, arrivals>>

(***************************************************************************)
(* The slots of the GUI thread                                             *)
(***************************************************************************)
\* the objects after a slot, and what the build does when it raised
Commit(S) ==
    /\ groups' = S.groups
    /\ joined_groups' = S.joined_groups
    /\ private_windows' = S.private_windows
    /\ windows' = S.windows
    /\ group_tabs' = S.group_tabs
    /\ currentIndex' = S.currentIndex
    /\ pub' = S.pub
    /\ lastErr' = S.err
    /\ alive' = ~(S.err /\ unhandled = "abort")

\* NextDelivery taking the newest emission
NextDeliveryNewest(q) == q[Len(q)]

\* the queued connection of message_received delivers the oldest emission
NextDelivery(q) == Head(q)

Line(dir, text) == [dir |-> dir, text |-> text]

Arrive(peer, line) ==
    [p \in DOMAIN arrivals \cup {peer} |->
        IF p = peer
        THEN (IF p \in DOMAIN arrivals THEN Append(arrivals[p], line) ELSE <<line>>)
        ELSE arrivals[p]]

\* the delivery of the oldest emission to handle_incoming_message; a message
\* box the slot opens stays open (nested) or is dismissed before anything else
\* happens
Deliver(nested) ==
    /\ alive /\ queue # <<>>
    /\ LET e == NextDelivery(queue)
           S == handle_incoming_message(Gui, e.msg)
       IN  /\ Commit(S)
           /\ modal' = IF nested /\ alive' THEN modal + S.box ELSE modal
           /\ queue' = Tail(queue)
           /\ applied' = Append(applied, e)
           /\ arrivals' =
                IF e.msg.type = "message" /\ "to" \in DOMAIN e.msg /\ ~S.err
                THEN Arrive(e.msg.from, Line("in", e.msg.data))
                ELSE arrivals
    /\ UNCHANGED <<feed, unhandled, pubClosed, userSends, subClosed, pumpPc,
                   caught, received>>

HandleIncoming == Deliver(FALSE)

\* the user clicks another tab of group_tabs
SelectTab(index) ==
    /\ alive /\ ~pubClosed /\ modal = 0
    /\ index \in 0..(Len(group_tabs) - 1)
    /\ index # currentIndex
    /\ Commit(setCurrentIndex(Gui, index))
    /\ UNCHANGED <<feed, unhandled, modal, pubClosed, userSends, subClosed, pumpPc,
                   caught, received, queue, applied, arrivals>>

\* start_private_chat(item), item.text() = target
start_private_chat(S, target) ==
    IF target = Username THEN S
    ELSE IF target \notin DOMAIN S.private_windows THEN OpenWindow(S, target)
    ELSE S      \* activateWindow()

StartPrivateChat(target) ==
    /\ alive /\ ~pubClosed /\ modal = 0
    /\ target \in Peers \cup {Username}
    /\ Commit(start_private_chat(Gui, target))
    /\ UNCHANGED <<feed, unhandled, modal, pubClosed, userSends, subClosed, pumpPc,
                   caught, received, queue, applied, arrivals>>

\* send_private_message, the slot of PrivateChatWindow.send_message
send_private_message(S, from_user, to_user, message) ==
    LET S1 == SendString(S, [type |-> "message", from |-> from_user,
                             to |-> to_user, data |-> message])
    IN  IF S1.err /\ ~S.err THEN SlotRaise(S) ELSE S1

\* PrivateChatWindow.on_send of window w with `text` in its input box
on_send(S, w, text) ==
    LET msg == Strip(text)
    IN  IF msg = "" THEN S
        ELSE display_message(
                 send_private_message(S, S.windows[w].local_user,
                                      S.windows[w].target_user, msg),
                 w, "You: " \o msg)

OnSend(w, text) ==
    /\ alive
    /\ userSends < MaxSend
    /\ w \in 1..Len(windows)
    /\ text \in Texts
    /\ userSends' = userSends + 1
    /\ LET S == on_send(Gui, w, text)
       IN  /\ Commit(S)
           /\ arrivals' =
                IF Strip(text) # "" /\ ~S.halt
                THEN Arrive(windows[w].target_user, Line("out", Strip(text)))
                ELSE arrivals
    /\ UNCHANGED <<feed, unhandled, modal, pubClosed, subClosed, pumpPc, caught,
                   received, queue, applied>>

\* the orders in which `for group in list(self.joined_groups)` may run
RECURSIVE Orders(_)
Orders(set) ==
    IF set = {} THEN {<<>>}
    ELSE UNION {{<<g>> \o rest : rest \in Orders(set \ {g})} : g \in set}

RECURSIVE LeaveAll(_, _)
LeaveAll(S, order) ==
    IF order = <<>> THEN S
    ELSE LeaveAll(send_command(S, "leave", Head(order)), Tail(order))

\* closeEvent with pub.close() moved before the leave commands
CloseEventClosingFirst ==
    /\ alive /\ ~pubClosed /\ modal = 0
    /\ Commit(IF joined_groups = {} THEN Gui ELSE Raise(Gui))
    /\ subClosed' = TRUE
    /\ pubClosed' = TRUE
    /\ UNCHANGED <<feed, unhandled, modal, userSends, pumpPc, caught, received, queue,
                   applied, arrivals>>

\* closeEvent: the leave commands, receiver.stop(), pub.close()
CloseEvent ==
    /\ alive /\ ~pubClosed /\ modal = 0
    /\ \E order \in Orders(joined_groups) : Commit(LeaveAll(Gui, order))
    /\ subClosed' = TRUE
    /\ pubClosed' = TRUE
    /\ UNCHANGED <<feed, unhandled, modal, userSends, pumpPc, caught, received, queue,
                   applied, arrivals>>

(***************************************************************************)
(* The commands of the user                                                *)
(***************************************************************************)
\* create_group, with QInputDialog.getText returning (group, ok)
create_group(S, group, ok) ==
    IF ok /\ Strip(group) # "" THEN send_command(S, "create", Strip(group))
    ELSE S

\* remove_group, with QInputDialog.getText returning (group, ok)
remove_group(S, group, ok) ==
    IF ok /\ Strip(group) # ""
    THEN IF Strip(group) \in DOMAIN S.groups
         THEN send_command(S, "remove", Strip(group))
         ELSE MessageBox(S)
    ELSE S

join_current_group(S) ==
    IF S.currentIndex < 0 THEN S
    ELSE LET current == tabText(S, S.currentIndex)
         IN  IF current = "" \/ current = Placeholder THEN S
             ELSE IF current \notin S.joined_groups
             THEN update_member_list(send_command(S, "join", current), current)
             ELSE MessageBox(S)

leave_current_group(S) ==
    IF S.currentIndex < 0 THEN S
    ELSE LET current == tabText(S, S.currentIndex)
         IN  IF current \in S.joined_groups
             THEN send_command(S, "leave", current)
             ELSE MessageBox(S)

\* send_group_message without the test of joined_groups
SendGroupMessageAnywhere(S, text) ==
    IF S.currentIndex < 0 THEN MessageBox(S)
    ELSE LET current  == tabText(S, S.currentIndex)
             msg_text == Strip(text)
         IN  IF current = "" \/ current = Placeholder THEN MessageBox(S)
             ELSE IF msg_text = "" THEN S
             ELSE LET S1 == SendString(S, GroupMsg(Username, current, msg_text))
                  IN  IF S1.halt THEN S1
                      ELSE [S1 EXCEPT !.group_tabs[S.currentIndex + 1].display =
                                          Append(@, "You: " \o msg_text)]

\* send_group_message with `text` in message_input
send_group_message(S, text) ==
    IF S.currentIndex < 0 THEN MessageBox(S)
    ELSE LET current  == tabText(S, S.currentIndex)
             msg_text == Strip(text)
         IN  IF current = "" \/ current = Placeholder THEN MessageBox(S)
             ELSE IF current \notin S.joined_groups THEN MessageBox(S)
             ELSE IF msg_text = "" THEN S
             ELSE LET S1 == SendString(S, GroupMsg(Username, current, msg_text))
                  IN  IF S1.halt THEN S1
                      ELSE [S1 EXCEPT !.group_tabs[S.currentIndex + 1].display =
                                          Append(@, "You: " \o msg_text)]

\* a slot of the main window run on the user's request; the boxes it opens
\* stay open until Dismiss
UserCommand(S) ==
    /\ alive /\ ~pubClosed /\ modal = 0
    /\ userSends < MaxSend
    /\ userSends' = userSends + 1
    /\ Commit(S)
    /\ modal' = IF alive' THEN modal + S.box ELSE modal
    /\ UNCHANGED <<feed, unhandled, pubClosed, subClosed, pumpPc, caught,
                   received, queue, applied, arrivals>>

CreateGroup(group, ok) == UserCommand(create_group(Gui, group, ok))

RemoveGroup(group, ok) == UserCommand(remove_group(Gui, group, ok))

JoinCurrentGroup == UserCommand(join_current_group(Gui))

LeaveCurrentGroup == UserCommand(leave_current_group(Gui))

SendGroupMessage(text) == UserCommand(send_group_message(Gui, text))

RefreshGroups == UserCommand(refresh_groups(Gui))

\* handle_incoming_message run from the event loop, also the one of an open
\* message box
HandleIncomingNested == Deliver(TRUE)

\* the user dismisses the message box opened last: its exec() returns into the
\* slot that opened it, which returns
Dismiss ==
    /\ alive /\ modal > 0
    /\ modal' = modal - 1
    /\ UNCHANGED <<feed, unhandled, alive, gui, pubClosed, userSends, subClosed,
                   pumpPc, caught, received, queue, applied, lastErr, arrivals>>

(***************************************************************************)
(* Specifications                                                          *)
(***************************************************************************)
NoWindows == [p \in {} |-> 0]

NoArrivals == [p \in {} |-> <<>>]

\* the state after ChatClient.__init__: the placeholder tab, and the two
\* refresh commands of init_ui and __init__
InitWith(f) ==
    /\ feed = f
    /\ unhandled \in {"abort", "print"}
    /\ alive = TRUE
    /\ groups = NoGroups
    /\ joined_groups = {}
    /\ private_windows = NoWindows
    /\ windows = <<>>
    /\ group_tabs = <<[text |-> Placeholder, display |-> <<>>]>>
    /\ currentIndex = 0
    /\ pub = <<Command("refresh", ""), Command("refresh", "")>>
    /\ pubClosed = FALSE
    /\ modal = 0
    /\ userSends = 0
    /\ subClosed = FALSE
    /\ pumpPc = "recv"
    /\ caught = "none"
    /\ received = <<>>
    /\ queue = <<>>
    /\ applied = <<>>
    /\ lastErr = FALSE
    /\ arrivals = NoArrivals

Init == InitWith("membership")

InitChat == InitWith("chat")

Next ==
    \/ \E raw \in Frames(feed) : PumpReceive(raw)
    \/ PumpExcept
    \/ PumpReceiveClosed
    \/ HandleIncoming
    \/ \E index \in 0..2 : SelectTab(index)
    \/ \E target \in Peers \cup {Username} : StartPrivateChat(target)
    \/ \E w \in 1..2, text \in Texts : OnSend(w, text)
    \/ CloseEvent

\* Next with the commands of the user and with message boxes that stay open
NextCommands ==
    \/ \E raw \in Frames(feed) : PumpReceive(raw)
    \/ PumpExcept
    \/ PumpReceiveClosed
    \/ HandleIncomingNested
    \/ Dismiss
    \/ \E index \in 0..2 : SelectTab(index)
    \/ \E target \in Peers \cup {Username} : StartPrivateChat(target)
    \/ \E group \in GroupInputs, ok \in BOOLEAN : CreateGroup(group, ok)
    \/ \E group \in GroupInputs, ok \in BOOLEAN : RemoveGroup(group, ok)
    \/ JoinCurrentGroup
    \/ LeaveCurrentGroup
    \/ \E text \in Texts : SendGroupMessage(text)
    \/ RefreshGroups
    \/ CloseEvent

InitCommands == InitWith("commands")

InitRouting == InitWith("routing")

InitLifecycle == InitWith("lifecycle")

InitStray == InitWith("stray")

Spec == Init /\ [][Next]_vars

SpecCommands == InitCommands /\ [][NextCommands]_vars

SpecRouting == InitRouting /\ [][Next]_vars

SpecLifecycle == InitLifecycle /\ [][Next]_vars

SpecStray == InitStray /\ [][NextCommands]_vars

SpecChat == InitChat /\ [][Next]_vars

(***************************************************************************)
(* Properties                                                              *)
(***************************************************************************)
Handled == Len(applied)

LastMsg == applied[Handled].msg

\* this step is one run of handle_incoming_message, on the envelope Delivered
Handling == queue # <<>> /\ Len(applied') = Len(applied) + 1

Delivered == NextDelivery(queue).msg

IsSnapshot(m) == m.type = "event" /\ "groups" \in DOMAIN m

ForUs(m) == "to" \notin DOMAIN m \/ m.to = Username

WellFormedSnapshot(m) ==
    /\ IsSnapshot(m) /\ ForUs(m)
    /\ m.groups.kind = "dict"
    /\ \A g \in DOMAIN m.groups.items : m.groups.items[g].kind = "list"

IsTextEvent(m) ==
    /\ m.type = "event" /\ ForUs(m)
    /\ "groups" \notin DOMAIN m /\ "data" \in DOMAIN m
    /\ ~Contains(m.data, "created") /\ ~Contains(m.data, "removed")

IsJoined(m) == IsTextEvent(m) /\ Contains(m.data, "joined")

IsLeft(m) == IsTextEvent(m) /\ ~Contains(m.data, "joined") /\ Contains(m.data, "left")

\* the actor and the group a sentence "<actor> joined|left <group>." names
Actor(m) == Split(m.data)[1]

NamedGroup(m) == RStripDot(Split(m.data)[Len(Split(m.data))])

DevEmpty == Snapshot([dev |-> List(<<>>)])

DevBob == SnapshotTo("alice", [dev |-> List(<<"bob">>)])

OpsBob == Snapshot([ops |-> List(<<"bob">>), dev |-> List(<<>>)])

\* C1: from the initial state, once the snapshot {"dev": []} and then the
\* event "alice joined group dev." have been applied, groups is
\* {"dev": {"alice"}} and joined_groups is {"dev"}.
EndToEndScenario ==
    ( /\ Handled = 2
      /\ applied[1].msg = DevEmpty
      /\ applied[2].msg = TextEvent("alice joined group dev.") )
    => /\ groups = [dev |-> {"alice"}]
       /\ joined_groups = {"dev"}

\* C2: after a snapshot event addressed to this client has been applied,
\* groups is exactly the mapping the event carries, each member array as a
\* set, whatever groups held before.
SnapshotReplaces ==
    (Handled > 0 /\ WellFormedSnapshot(LastMsg))
    => /\ DOMAIN groups = DOMAIN LastMsg.groups.items
       /\ \A g \in DOMAIN groups :
            groups[g] = {LastMsg.groups.items[g].items[i] :
                            i \in 1..Len(LastMsg.groups.items[g].items)}

\* C2 witness: {"dev": ["bob"]} then {"ops": ["bob"], "dev": []} were applied
\* and bob is no longer a member of dev.
SnapshotReplacedWitness ==
    /\ Handled = 2
    /\ applied[1].msg = DevBob
    /\ applied[2].msg = OpsBob
    /\ groups = [dev |-> {}, ops |-> {"bob"}]

\* C3: in every reachable state joined_groups is a subset of the group names
\* of groups.
JoinedSubsetOfGroups == joined_groups \subseteq DOMAIN groups

\* C4: applying the Joined event that was applied last once more changes
\* neither groups nor joined_groups.
IdempotentJoin ==
    [][ (Handling /\ Handled > 0 /\ IsJoined(Delivered) /\ Delivered = LastMsg)
        => (groups' = groups /\ joined_groups' = joined_groups) ]_vars

\* C4 witness: "alice joined dev." was applied twice in a row to a client
\* that knows dev, and alice is a member and has joined.
IdempotentJoinWitness ==
    /\ Handled = 3
    /\ applied[2].msg = TextEvent("alice joined dev.")
    /\ applied[3].msg = applied[2].msg
    /\ groups = [dev |-> {"alice"}]
    /\ joined_groups = {"dev"}

\* C5: applying a Left event whose actor is not a member of the group it
\* names raises no error and changes none of groups, joined_groups and the
\* private windows.
LeftOfNonMemberIsNoOp ==
    [][ ( /\ Handling /\ IsLeft(Delivered)
          /\ Len(Split(Delivered.data)) = 3
          /\ NamedGroup(Delivered) \in DOMAIN groups
          /\ Actor(Delivered) \notin groups[NamedGroup(Delivered)] )
        => /\ ~lastErr' /\ alive'
           /\ groups' = groups /\ joined_groups' = joined_groups
           /\ private_windows' = private_windows /\ windows' = windows ]_vars

\* the line a private chat window shows for an exchanged line
Shown(peer, line) ==
    IF line.dir = "in" THEN peer \o ": " \o line.text ELSE "You: " \o line.text

\* C6: there is at most one private chat window per peer, it is the one the
\* registry holds for that peer, and its log is the lines exchanged with the
\* peer (inbound messages from it, lines sent to it) in the order they came.
PrivateSessionSingleton ==
    /\ \A i, j \in 1..Len(windows) :
            windows[i].target_user = windows[j].target_user => i = j
    /\ \A i \in 1..Len(windows) :
            /\ windows[i].target_user \in DOMAIN private_windows
            /\ private_windows[windows[i].target_user] = i
    /\ \A p \in DOMAIN arrivals :
            /\ p \in DOMAIN private_windows
            /\ windows[private_windows[p]].chat_display =
                    [k \in 1..Len(arrivals[p]) |-> Shown(p, arrivals[p][k])]

\* C6 witness: two inbound messages from bob, then a line sent to bob, in
\* bob's one window.
PrivateSessionWitness ==
    /\ Len(windows) = 1
    /\ "bob" \in DOMAIN private_windows
    /\ windows[private_windows["bob"]].chat_display = <<"bob: hi", "bob: yo", "You: ok">>

IsGroupMessage(m) == m.type = "message" /\ "to" \notin DOMAIN m

\* C7: applying a group message whose group is not a key of groups raises no
\* error and changes no state: groups, joined_groups, the private windows,
\* the tabs and their display logs.
UnknownGroupMessageDropped ==
    [][ ( /\ Handling /\ IsGroupMessage(Delivered)
          /\ Delivered.group \notin DOMAIN groups )
        => /\ ~lastErr' /\ alive'
           /\ gui' = gui ]_vars

\* C8: handle_incoming_message returns normally on every envelope delivered
\* to it: no exception is raised and the process goes on.
HandlerNeverThrows ==
    [][ Handling => (~lastErr' /\ alive') ]_vars

\* C9: the receive failure on the SUB socket that stop() closed ends the
\* loop of run(): the pump does not go back to receiving after it.
PumpStopsAfterStop ==
    [][ (pumpPc = "except" /\ caught = "ZMQError") => pumpPc' # "recv" ]_vars

\* the receive numbers of the frames emitted to the GUI thread
Forwarded == {queue[i].n : i \in 1..Len(queue)} \cup {applied[i].n : i \in 1..Len(applied)}

\* C10: the pump never ends on a frame that fails to decode: such a frame is
\* not forwarded, every frame that is a JSON object is, and the loop is still
\* running.
BadFrameNeverStopsPump ==
    /\ Forwarded = {n \in 1..Len(received) : received[n] = "object"}
    /\ pumpPc \in {"recv", "except"}

\* C10 witness: a frame that failed to decode, and a later frame forwarded
BadFrameWitness ==
    \E n \in 1..Len(received) :
        /\ received[n] # "object"
        /\ \E k \in Forwarded : k > n

\* the leave commands of closeEvent for the groups of `order`
Leaves(order) == [i \in 1..Len(order) |-> Command("leave", order[i])]

\* C11: the step that closes the PUB socket adds to the envelopes sent
\* exactly one leave command for each group of joined_groups, without an
\* error, and nothing is sent once the socket is closed.
ShutdownDrains ==
    [][ /\ (~pubClosed /\ pubClosed')
            => /\ \E order \in Orders(joined_groups) : pub' = pub \o Leaves(order)
               /\ ~lastErr' /\ alive'
        /\ pubClosed => pub' = pub ]_vars

\* C11 witness: the window was closed with dev and ops joined, and the last
\* two envelopes sent are the leave commands for them.
ShutdownDrainsWitness ==
    /\ pubClosed
    /\ joined_groups = {"dev", "ops"}
    /\ Len(pub) >= 2
    /\ {pub[Len(pub) - 1], pub[Len(pub)]} =
            {Command("leave", "dev"), Command("leave", "ops")}

\* this step is a step of the receiver thread
ReceiverStep == received' # received \/ pumpPc' # pumpPc \/ caught' # caught

\* this step is a slot the user started
UserStep == userSends' # userSends

\* C12: groups, joined_groups and the private windows are never changed by a
\* step of the receiver thread; no step is both the application of an
\* envelope and a command of the user, or the application of two envelopes;
\* and a slot that returns from the message box it opened changes nothing
\* any more, whatever was applied while the box was open.
SingleWriter ==
    [][ /\ ReceiverStep
            => UNCHANGED <<groups, joined_groups, private_windows, windows>>
        /\ ~(Len(applied') # Len(applied) /\ UserStep)
        /\ Len(applied') <= Len(applied) + 1
        /\ modal' < modal => gui' = gui ]_vars

\* C12 witness: three frames received, and their envelopes applied one inside
\* the message box of the other, with dev and ops joined on the way.
SingleWriterWitness ==
    /\ Len(received) = 3 /\ Handled = 3
    /\ modal = 2
    /\ joined_groups = {"dev", "ops"}

\* C13: the envelopes are applied in the order the pump received their
\* frames: the receive numbers of the applied envelopes are strictly
\* increasing (none twice, none before an earlier one), every envelope still
\* queued was received after every applied one, and the queue holds them in
\* receive order.
FifoDelivery ==
    /\ \A i, j \in 1..Len(applied) : i < j => applied[i].n < applied[j].n
    /\ \A i, j \in 1..Len(queue) : i < j => queue[i].n < queue[j].n
    /\ \A i \in 1..Len(applied), k \in 1..Len(queue) : applied[i].n < queue[k].n
    /\ \A i \in 1..Len(applied) : received[applied[i].n] = "object"

\* C13 witness: an envelope applied while two later ones wait in the queue
FifoDeliveryWitness ==
    /\ Len(applied) >= 1
    /\ Len(queue) >= 2

\* an event addressed to somebody else
ForOthers(m) == m.type = "event" /\ "to" \in DOMAIN m /\ m.to # Username

\* C14: applying an event whose `to` is not the local user raises no error
\* and changes nothing: groups, joined_groups, the private windows, the tabs
\* and the envelopes sent (no refresh command).
TargetedEventDiscarded ==
    [][ (Handling /\ ForOthers(Delivered))
        => /\ ~lastErr' /\ alive'
           /\ gui' = gui ]_vars

\* C14 witness: with dev joined, the event "alice left dev." addressed to bob
\* has been applied, and dev is still joined.
TargetedEventWitness ==
    /\ Handled = 3
    /\ LastMsg = TextEventTo("bob", "alice left dev.")
    /\ joined_groups = {"dev"}
    /\ "alice" \in groups["dev"]

\* what the user can see of the client
Observable(S) ==
    <<S.groups, S.joined_groups, S.private_windows, S.windows, S.group_tabs,
      S.currentIndex>>

\* C15: when an envelope has been applied and the process goes on, applying
\* the same envelope again right away changes nothing the first application
\* left: groups, joined_groups, the private windows and their logs, the tabs
\* and their display logs.
DuplicateDeliveryIdempotent ==
    [][ (Handling /\ alive')
        => Observable(handle_incoming_message(Gui', Delivered)) = Observable(Gui') ]_vars

\* C16: applying a group message whose group is a key of groups appends the
\* line "<from>: <data>" to the display log of that group's tab, and leaves
\* the other tabs as they are.
KnownGroupMessageAppended ==
    [][ ( /\ Handling /\ IsGroupMessage(Delivered)
          /\ Delivered.group \in DOMAIN groups )
        => /\ Len(group_tabs') = Len(group_tabs)
           /\ \E i \in 1..Len(group_tabs) : group_tabs[i].text = Delivered.group
           /\ \A i \in 1..Len(group_tabs) :
                group_tabs'[i] =
                    IF group_tabs[i].text = Delivered.group
                    THEN [group_tabs[i] EXCEPT !.display =
                            Append(@, Delivered.from \o ": " \o Delivered.data)]
                    ELSE group_tabs[i] ]_vars

\* an event for us that reports a group created or removed
IsCreatedOrRemoved(m) ==
    /\ m.type = "event" /\ ForUs(m)
    /\ "groups" \notin DOMAIN m /\ "data" \in DOMAIN m
    /\ (Contains(m.data, "created") \/ Contains(m.data, "removed"))

\* C17: applying an event that reports a group created or removed sends
\* exactly one refresh command and changes neither groups nor joined_groups.
CreatedRemovedRefreshes ==
    [][ (Handling /\ IsCreatedOrRemoved(Delivered))
        => /\ pub' = Append(pub, Command("refresh", ""))
           /\ groups' = groups
           /\ joined_groups' = joined_groups ]_vars

Actors == {Username} \cup Peers

\* the sentence of the Left event for (actor, group)
LeftSentence(actor, group) == actor \o " left " \o group \o "."

\* m is the Left event for (actor, group), addressed to us
IsLeftOf(m, actor, group) ==
    /\ m.type = "event" /\ ForUs(m)
    /\ "groups" \notin DOMAIN m /\ "data" \in DOMAIN m
    /\ m.data = LeftSentence(actor, group)

\* C18: after the Left event for an actor and a group of groups has been
\* applied, the actor is no member of the group, and when the actor is the
\* local user the group is not in joined_groups, whatever the names are.
LeftRemoves ==
    [][ \A actor \in Actors, g \in DOMAIN groups :
            (Handling /\ IsLeftOf(Delivered, actor, g))
            => /\ g \in DOMAIN groups'
               /\ actor \notin groups'[g]
               /\ actor = Username => g \notin joined_groups' ]_vars

\* the sentence of the Joined event for (actor, group)
JoinedSentence(actor, group) == actor \o " joined " \o group \o "."

\* m is the Joined event for (actor, group), addressed to us
IsJoinedOf(m, actor, group) ==
    /\ m.type = "event" /\ ForUs(m)
    /\ "groups" \notin DOMAIN m /\ "data" \in DOMAIN m
    /\ m.data = JoinedSentence(actor, group)

\* the group names of the feeds
GroupNames == {"dev", "ops", "joined", "created"}

\* C19: applying the Joined or the Left event for a group that is no key of
\* groups raises no error, does not create the group and changes neither
\* groups nor joined_groups, whoever the actor is.
StaleJoinLeftDropped ==
    [][ \A actor \in Actors, g \in GroupNames \ DOMAIN groups :
            ( /\ Handling
              /\ IsJoinedOf(Delivered, actor, g) \/ IsLeftOf(Delivered, actor, g) )
            => /\ ~lastErr' /\ alive'
               /\ groups' = groups
               /\ joined_groups' = joined_groups ]_vars

\* the envelopes this step sends on the PUB socket
Sent == {pub'[i] : i \in (Len(pub) + 1)..Len(pub')}

IsCommand(e, actions) == e.type = "command" /\ e.action \in actions

\* C20: every group message sent names the tab selected, which is not the
\* placeholder and is in joined_groups, and carries a text that is trimmed
\* and not empty; every create or remove command names a group that is
\* trimmed and not empty; every leave command names a group of
\* joined_groups, and every join command a group that is not in it.
InputErrorsRejected ==
    [][ /\ Len(pub') >= Len(pub)
        /\ \A e \in Sent :
            /\ IsGroupMessage(e)
                => /\ currentIndex >= 0
                   /\ e.group = group_tabs[currentIndex + 1].text
                   /\ e.group # Placeholder
                   /\ e.group \in joined_groups
                   /\ e.data # "" /\ Strip(e.data) = e.data
            /\ IsCommand(e, {"create", "remove"})
                => e.group # "" /\ Strip(e.group) = e.group
            /\ IsCommand(e, {"leave"}) => e.group \in joined_groups
            /\ IsCommand(e, {"join"}) => e.group \notin joined_groups ]_vars

\* C20 witness: with dev joined and the tab of ops selected, a command of
\* the user was refused with a message box and nothing was sent.
InputErrorsWitness ==
    /\ joined_groups = {"dev"}
    /\ currentIndex = 1 /\ group_tabs[2].text = "ops"
    /\ userSends = 1 /\ modal = 1
    /\ Handled = 2
    /\ Len(pub) = 2

\* C21: the placeholder name "No Groups" is never a key of groups and never
\* an element of joined_groups, whatever the provider sends.
ReservedNameGuard ==
    /\ Placeholder \notin DOMAIN groups
    /\ Placeholder \notin joined_groups

\* C22: a step that sends a command leaves groups and joined_groups as they
\* are; a group enters joined_groups only in the application of the Joined
\* event of the local user for it, and leaves joined_groups only in the
\* application of the Left event of the local user for it or of a snapshot.
CommandsChangeNoMembership ==
    [][ /\ (\E e \in Sent : e.type = "command")
            => (groups' = groups /\ joined_groups' = joined_groups)
        /\ \A g \in joined_groups' \ joined_groups :
            Handling /\ IsJoinedOf(Delivered, Username, g)
        /\ \A g \in joined_groups \ joined_groups' :
            Handling /\ (IsSnapshot(Delivered) \/ IsLeftOf(Delivered, Username, g)) ]_vars

\* C23: in every state the local user is a member, in groups, of every group
\* of joined_groups that groups knows.
JoinedImpliesMember ==
    \A g \in joined_groups \cap DOMAIN groups : Username \in groups[g]

\* C23, amended: every step that adds a group to joined_groups leaves the
\* group a key of groups with the local user among its members.
JoinedImpliesMemberOnJoin ==
    [][ \A g \in joined_groups' \ joined_groups :
            /\ g \in DOMAIN groups'
            /\ Username \in groups'[g] ]_vars

\* C23 witness: "alice joined dev." was applied last, dev is joined and
\* alice is a member of it.
JoinedImpliesMemberWitness ==
    /\ Handled = 2
    /\ LastMsg = TextEvent("alice joined dev.")
    /\ "dev" \in joined_groups
    /\ "dev" \in DOMAIN groups /\ Username \in groups["dev"]

\* a private message addressed to somebody else
MessageForOthers(m) == m.type = "message" /\ "to" \in DOMAIN m /\ m.to # Username

\* C24: applying a private message whose `to` is not the local user opens no
\* private chat window and appends to the log of none.
StrayPrivateMessageIgnored ==
    [][ (Handling /\ MessageForOthers(Delivered))
        => /\ private_windows' = private_windows
           /\ windows' = windows ]_vars

\* C25: private_windows never has an entry for the local user, and no
\* private chat window has the local user as its peer.
NoSelfSession ==
    /\ Username \notin DOMAIN private_windows
    /\ \A i \in 1..Len(windows) : windows[i].target_user # Username

====
